---- MODULE Spec2Model ----
(***************************************************************************)
(* Model of the two preview scripts of neredenaldim/websitesi:             *)
(*   online_preview.py        local server + ngrok tunnel fallback chain   *)
(*   preview_neredenaldim.py  local server + browser                       *)
(* Strings are sequences of words; a word is whitespace, plain text, a     *)
(* "url=<scheme>://<host>" field or an "err=<...>" field.                  *)
(***************************************************************************)
EXTENDS Integers, Sequences, FiniteSets, TLC

\* ---------------------------------------------------------------- bounds
MaxLines == 2          \* lines the CLI loop may read in one run
MaxElapsed == 45       \* the clock of the CLI loop stops advancing here

\* ------------------------------------------------------ program constants
CliWindow == 30        \* deadline = time.time() + 30
DefaultPort == 8000    \* --port default / find_free_port(8000)
EphemeralPorts == {49152, 49153}   \* ports the OS hands out for bind(..., 0)

\* ------------------------------------------------------------------ text
Ws(c) == [kind |-> "ws", scheme |-> "", text |-> c]
Txt(t) == [kind |-> "txt", scheme |-> "", text |-> t]
UrlField(s, h) == [kind |-> "url", scheme |-> s, text |-> h]
ErrField(t) == [kind |-> "err", scheme |-> "", text |-> t]

SP == Ws(" ")
NL == Ws("\n")

IsSpace(w) == w.kind = "ws"

RECURSIVE LStrip(_)
LStrip(s) == IF s # <<>> /\ IsSpace(Head(s)) THEN LStrip(Tail(s)) ELSE s

RECURSIVE RStrip(_)
RStrip(s) ==
  IF s # <<>> /\ IsSpace(s[Len(s)]) THEN RStrip(SubSeq(s, 1, Len(s) - 1)) ELSE s

\* str.strip()
Strip(s) == RStrip(LStrip(s))

\* Optional[str]
None == [isNone |-> TRUE, text |-> <<>>]
Some(t) == [isNone |-> FALSE, text |-> t]
\* Python truthiness of an Optional[str]
Truthy(o) == ~o.isNone /\ o.text # <<>>

\* ------------------------------------------------------ subprocess output
LInfo == <<Txt("lvl=info"), SP, Txt("msg=starting"), NL>>
LHttp == <<Txt("lvl=info"), SP, UrlField("http", "fake.example"), NL>>
LHttps == <<Txt("lvl=info"), SP, UrlField("https", "secure.example"), NL>>
LErr == <<Txt("lvl=eror"), SP, ErrField("auth failed"), NL>>
LHttpErr ==
  <<Txt("lvl=eror"), SP, UrlField("http", "fake.example"), SP, ErrField("reset"), NL>>
LHttpsErr ==
  <<Txt("lvl=eror"), SP, UrlField("https", "secure.example"), SP, ErrField("reset"), NL>>

Lines == {LInfo, LHttp, LHttps, LErr, LHttpErr, LHttpsErr}

\* re.compile(r"url=(https?://[^\s]+)").search(line): index of the first match, 0 if none
RECURSIVE SearchFrom(_, _)
SearchFrom(line, i) ==
  IF i > Len(line) THEN 0
  ELSE IF line[i].kind = "url" /\ line[i].scheme \in {"http", "https"} THEN i
  ELSE SearchFrom(line, i + 1)

UrlSearch(line) == SearchFrom(line, 1)

\* match.group(1)
Group1(line) == [scheme |-> line[UrlSearch(line)].scheme, host |-> line[UrlSearch(line)].text]

NoUrl == [scheme |-> "", host |-> ""]

\* "err=" in line
HasErrMarker(line) == \E i \in 1..Len(line) : line[i].kind = "err"

\* ------------------------------------------------------------ port selector
Returned(p) == [raised |-> FALSE, port |-> p]
Raised == [raised |-> TRUE, port |-> 0]

\* sock.bind((host, p)) followed by sock.getsockname()[1]; alreadyBound: the
\* socket got a local address from an earlier successful connect (EINVAL)
BindOutcomes(alreadyBound, p, inUse) ==
  IF alreadyBound THEN {Raised}
  ELSE IF p = 0 THEN
    IF EphemeralPorts \ inUse = {} THEN {Raised}
    ELSE {Returned(e) : e \in EphemeralPorts \ inUse}
  ELSE IF p \in inUse THEN {Raised}
  ELSE {Returned(p)}

\* sock.connect_ex(("127.0.0.1", p)) == 0
ConnectSucceeds(p, listening) == p \in listening

\* online_preview.find_available_port: probe and bind use the same socket
find_available_port(preferred, listening) ==
  LET connected == ConnectSucceeds(preferred, listening)
      target == IF connected THEN 0 ELSE preferred
  IN BindOutcomes(connected, target, listening)

\* preview_neredenaldim.find_free_port: a fresh socket for the ephemeral bind
find_free_port(preferred, listening) ==
  IF ~ConnectSucceeds(preferred, listening) THEN {Returned(preferred)}
  ELSE BindOutcomes(FALSE, 0, listening)

\* ------------------------------------------------------------ auth token
\* resolve_auth_token(cli_token) with os.getenv, sys.stdin.isatty() and input()
resolve_auth_token(cli_token, env_token, isatty, typed) ==
  IF Truthy(cli_token) THEN cli_token
  ELSE IF Truthy(env_token) THEN env_token
  ELSE IF isatty /\ Strip(typed) # <<>> THEN Some(Strip(typed))
  ELSE None

\* env = os.environ.copy(); if auth_token and "NGROK_AUTHTOKEN" not in env: ...
SubprocessEnv(env_token, auth_token) ==
  IF Truthy(auth_token) /\ env_token.isNone THEN auth_token ELSE env_token

\* if auth_token: conf_module.get_default().auth_token = auth_token
ApplyConfToken(conf_token, auth_token) ==
  IF Truthy(auth_token) THEN auth_token ELSE conf_token

\* ------------------------------------------------------------ pyngrok import
\* ensure_pyngrok as seen by main: "loaded", or "none" after SystemExit /
\* ModuleNotFoundError was caught
ensure_pyngrok(installed, auto_install, pip_ok, import_ok) ==
  IF installed THEN "loaded"
  ELSE IF ~auto_install THEN "none"
  ELSE IF ~pip_ok THEN "none"
  ELSE IF import_ok THEN "loaded" ELSE "none"

\* ------------------------------------------------------------ CLI read loop
\* body of the while loop for one line: the new url and how the iteration ends
ProcessLine_noPrefer(url, line) ==
  LET m == UrlSearch(line)
      u == IF m # 0 /\ url = NoUrl THEN Group1(line) ELSE url
  IN IF HasErrMarker(line) THEN [url |-> u, how |-> "raise"]
     ELSE [url |-> u, how |-> "continue"]

ProcessLine(url, line) ==
  LET m == UrlSearch(line)
  IN IF m # 0 /\ Group1(line).scheme = "https"
       THEN [url |-> Group1(line), how |-> "break"]
     ELSE LET u == IF m # 0 /\ url = NoUrl THEN Group1(line) ELSE url
          IN IF HasErrMarker(line) THEN [url |-> u, how |-> "raise"]
             ELSE [url |-> u, how |-> "continue"]

\* while time.time() < deadline
InWindow(t) == t < CliWindow

\* ------------------------------------------------------------ main decisions
NoTunnel == [kind |-> "none", url |-> NoUrl]

TargetMissing_never(exists) == FALSE

\* if not html_file.exists()
TargetMissing(exists) == ~exists

NeedCliFallback_always(t) == TRUE

\* if tunnel is None (before the CLI backend)
NeedCliFallback(t) == t = NoTunnel

\* return 0 at the end of main
PublicExit == 0

\* return 1 for the missing file
MissingFileExit == 1

DegradedExit_asPublic == PublicExit

\* return 1 at the end of the degraded branch
DegradedExit == 1

\* ------------------------------------------------------------ reasons
ReasonNotInstalled == <<Txt("ngrok CLI is not installed or not on PATH.")>>
ReasonNoUrl == <<Txt("ngrok CLI did not report a public URL. Check your ngrok setup.")>>
ReasonPyngrok == <<Txt("pyngrok backend failed:"), SP, Txt("connect error")>>

\* ------------------------------------------------------------ inputs
Ports == {DefaultPort} \cup EphemeralPorts
\* listener sets that leave the OS an ephemeral port to hand out
ListenerSets == {L \in SUBSET Ports : EphemeralPorts \ L # {}}
TokA == <<Txt("tokA")>>
TokB == <<Txt("tokB")>>
TokC == <<Txt("tokC")>>
CliTokens == {None, Some(TokA)}
EnvTokens == {None, Some(<<>>), Some(TokB)}
Typed == {<<NL>>, <<SP, Txt("tokC"), NL>>}
Delays == {0, 15}

NoExc == [type |-> "none", at |-> ""]
PyngrokUrl == [scheme |-> "https", host |-> "pyngrok.example"]

\* ------------------------------------------------------------ state
VARIABLES
  script,        \* which of the two scripts runs
  pc,            \* position of the main flow
  htmlExists,    \* html_file.exists() / HTML_FILE.exists()
  cliToken,      \* args.auth_token
  environ,       \* os.environ.get("NGROK_AUTHTOKEN")
  argPort,       \* args.port
  listeners,     \* ports with an active local listener when the port is selected
  portOutcome,   \* "none", "returned" or "raised": how the port selector ended
  port,          \* the selected port, 0 before selection
  server,        \* "none", "serving", "closed"
  shutdownCalls, \* calls of server.shutdown()
  closeCalls,    \* calls of server.server_close()
  stdin,         \* what resolve_auth_token saw on stdin
  resolveCalls,  \* calls of resolve_auth_token
  auth_token,    \* main's auth_token
  modules,       \* "unset", "none", "loaded"
  confToken,     \* conf.get_default().auth_token
  connectLog,    \* configuration token at each ngrok.connect call
  tunnel,        \* main's tunnel
  tunnelShutdownCalls, \* calls of tunnel.shutdown()
  errors,        \* main's errors list
  procState,     \* ngrok subprocess: "none", "running", "exited", "terminated", "killed"
  procEnv,       \* NGROK_AUTHTOKEN in the subprocess environment
  terminateCalls,\* calls of process.terminate()
  url,           \* open_ngrok_cli_tunnel's url
  elapsed,       \* time.time() - (deadline - 30)
  linesRead,     \* lines returned by process.stdout.readline()
  exitCode,      \* main's return value / exit status, -1 while none
  exc,           \* exception that left main
  interruptedAt, \* pc at which KeyboardInterrupt arrived, "" if none
  trace          \* order of server start and backend attempts

vars == <<script, pc, htmlExists, cliToken, environ, argPort, listeners, portOutcome,
          port, server, shutdownCalls, closeCalls, stdin, resolveCalls, auth_token,
          modules, confToken, connectLog, tunnel, tunnelShutdownCalls, errors,
          procState, procEnv, terminateCalls, url, elapsed, linesRead, exitCode,
          exc, interruptedAt, trace>>

portVars == <<argPort, listeners, portOutcome, port>>
serverVars == <<server, shutdownCalls, closeCalls>>
tokenVars == <<stdin, resolveCalls, auth_token>>
libVars == <<modules, confToken, connectLog>>
procVars == <<procState, procEnv, terminateCalls>>
loopVars == <<url, elapsed, linesRead>>
inputVars == <<script, htmlExists, cliToken, environ>>

Init ==
  /\ script \in {"online_preview", "preview_neredenaldim"}
  /\ htmlExists \in BOOLEAN
  /\ cliToken \in (IF script = "online_preview" THEN CliTokens ELSE {None})
  /\ environ \in (IF script = "online_preview" THEN EnvTokens ELSE {None})
  /\ pc = "start"
  /\ argPort = DefaultPort
  /\ listeners = {}
  /\ portOutcome = "none"
  /\ port = 0
  /\ server = "none"
  /\ shutdownCalls = 0
  /\ closeCalls = 0
  /\ stdin = [tty |-> FALSE, typed |-> <<>>]
  /\ resolveCalls = 0
  /\ auth_token = None
  /\ modules = "unset"
  /\ confToken = None
  /\ connectLog = <<>>
  /\ tunnel = NoTunnel
  /\ tunnelShutdownCalls = 0
  /\ errors = <<>>
  /\ procState = "none"
  /\ procEnv = None
  /\ terminateCalls = 0
  /\ url = NoUrl
  /\ elapsed = 0
  /\ linesRead = <<>>
  /\ exitCode = -1
  /\ exc = NoExc
  /\ interruptedAt = ""
  /\ trace = <<>>

\* ------------------------------------------------------------ online_preview.main
\* lines 203-207: the existence check
CheckHtml ==
  /\ script = "online_preview" /\ pc = "start"
  /\ IF TargetMissing(htmlExists)
       THEN pc' = "done" /\ exitCode' = MissingFileExit
       ELSE pc' = "find_port" /\ UNCHANGED exitCode
  /\ UNCHANGED <<inputVars, portVars, serverVars, tokenVars, libVars, tunnel,
                 tunnelShutdownCalls, errors, procVars, loopVars, exc,
                 interruptedAt, trace>>

\* line 209: port = find_available_port(args.port); an OSError leaves main
FindAvailablePort ==
  /\ script = "online_preview" /\ pc = "find_port"
  /\ \E p \in Ports, L \in ListenerSets :
       \E r \in find_available_port(p, L) :
         /\ argPort' = p
         /\ listeners' = L
         /\ IF r.raised
              THEN /\ portOutcome' = "raised"
                   /\ pc' = "crashed"
                   /\ exc' = [type |-> "OSError", at |-> "find_port"]
                   /\ UNCHANGED port
              ELSE /\ portOutcome' = "returned"
                   /\ port' = r.port
                   /\ pc' = "start_server"
                   /\ UNCHANGED exc
  /\ UNCHANGED <<inputVars, serverVars, tokenVars, libVars, tunnel,
                 tunnelShutdownCalls, errors, procVars, loopVars, exitCode,
                 interruptedAt, trace>>

\* lines 210-212: server = start_server(html_file, port)
StartServer ==
  /\ script = "online_preview" /\ pc = "start_server"
  /\ server' = "serving"
  /\ trace' = Append(trace, "server")
  /\ pc' = "resolve_token"
  /\ UNCHANGED <<inputVars, portVars, shutdownCalls, closeCalls, tokenVars, libVars,
                 tunnel, tunnelShutdownCalls, errors, procVars, loopVars, exitCode,
                 exc, interruptedAt>>

\* line 215: auth_token = resolve_auth_token(args.auth_token)
ResolveAuthToken ==
  /\ script = "online_preview" /\ pc = "resolve_token"
  /\ \E tty \in BOOLEAN, typed \in Typed :
       /\ stdin' = [tty |-> tty, typed |-> IF tty THEN typed ELSE <<>>]
       /\ auth_token' = resolve_auth_token(cliToken, environ, tty, typed)
  /\ resolveCalls' = resolveCalls + 1
  /\ pc' = "ensure_pyngrok"
  /\ UNCHANGED <<inputVars, portVars, serverVars, libVars, tunnel, tunnelShutdownCalls,
                 errors, procVars, loopVars, exitCode, exc, interruptedAt, trace>>

\* lines 217-228: modules = ensure_pyngrok(...), SystemExit and Exception caught
EnsurePyngrok ==
  /\ script = "online_preview" /\ pc = "ensure_pyngrok"
  /\ \E installed \in BOOLEAN, auto \in BOOLEAN, pipOk \in BOOLEAN, importOk \in BOOLEAN :
       modules' = ensure_pyngrok(installed, auto, pipOk, importOk)
  /\ pc' = "open_pyngrok"
  /\ UNCHANGED <<inputVars, portVars, serverVars, tokenVars, confToken, connectLog,
                 tunnel, tunnelShutdownCalls, errors, procVars, loopVars, exitCode,
                 exc, interruptedAt, trace>>

\* lines 230-236: the library backend, any Exception recorded as a reason
OpenPyngrokTunnel ==
  /\ script = "online_preview" /\ pc = "open_pyngrok"
  /\ IF modules = "loaded"
       THEN /\ confToken' = ApplyConfToken(confToken, auth_token)
            /\ connectLog' = Append(connectLog, confToken')
            /\ trace' = Append(trace, "library")
            /\ \E ok \in BOOLEAN :
                 IF ok THEN /\ tunnel' = [kind |-> "pyngrok", url |-> PyngrokUrl]
                            /\ UNCHANGED errors
                       ELSE /\ errors' = Append(errors, ReasonPyngrok)
                            /\ UNCHANGED tunnel
       ELSE UNCHANGED <<confToken, connectLog, trace, tunnel, errors>>
  /\ pc' = IF NeedCliFallback(tunnel') THEN "cli_start" ELSE "check_tunnel"
  /\ UNCHANGED <<inputVars, portVars, serverVars, tokenVars, modules,
                 tunnelShutdownCalls, procVars, loopVars, exitCode, exc, interruptedAt>>

\* lines 108-127: shutil.which, the environment, Popen; TunnelError is caught by
\* main (line 239), an OSError of Popen reaches main's outer handler (282-285)
CliStart ==
  /\ script = "online_preview" /\ pc = "cli_start"
  /\ trace' = Append(trace, "cli")
  /\ \E found \in BOOLEAN, popenOk \in BOOLEAN :
       IF ~found
         THEN /\ errors' = Append(errors, ReasonNotInstalled)
              /\ pc' = "check_tunnel"
              /\ UNCHANGED <<procVars, serverVars, exc, loopVars>>
       ELSE IF ~popenOk
         THEN /\ server' = "closed"
              /\ shutdownCalls' = shutdownCalls + 1
              /\ closeCalls' = closeCalls + 1
              /\ exc' = [type |-> "OSError", at |-> "cli_start"]
              /\ pc' = "crashed"
              /\ UNCHANGED <<procVars, errors, loopVars>>
       ELSE /\ procState' = "running"
            /\ procEnv' = SubprocessEnv(environ, auth_token)
            /\ url' = NoUrl
            /\ elapsed' = 0
            /\ linesRead' = <<>>
            /\ pc' = "cli_loop"
            /\ UNCHANGED <<terminateCalls, serverVars, errors, exc>>
  /\ UNCHANGED <<inputVars, portVars, tokenVars, libVars, tunnel, tunnelShutdownCalls,
                 exitCode, interruptedAt>>

\* line 129: while time.time() < deadline
CliLoopTest ==
  /\ script = "online_preview" /\ pc = "cli_loop"
  /\ pc' = IF InWindow(elapsed) THEN "cli_readline" ELSE "cli_end"
  /\ UNCHANGED <<inputVars, portVars, serverVars, tokenVars, libVars, tunnel,
                 tunnelShutdownCalls, errors, procVars, loopVars, exitCode, exc,
                 interruptedAt, trace>>

\* lines 130-144: readline returned a line after d seconds
CliReadLine ==
  /\ script = "online_preview" /\ pc = "cli_readline"
  /\ procState = "running"
  /\ Len(linesRead) < MaxLines
  /\ \E line \in Lines, d \in Delays :
       LET r == ProcessLine(url, line)
       IN /\ elapsed + d <= MaxElapsed
          /\ elapsed' = elapsed + d
          /\ linesRead' = Append(linesRead, line)
          /\ url' = r.url
          /\ IF r.how = "raise"
               THEN /\ procState' = "terminated"
                    /\ terminateCalls' = terminateCalls + 1
                    /\ errors' = Append(errors, Strip(line))
                    /\ pc' = "check_tunnel"
               ELSE /\ pc' = IF r.how = "break" THEN "cli_end" ELSE "cli_loop"
                    /\ UNCHANGED <<procState, terminateCalls, errors>>
  /\ UNCHANGED <<inputVars, portVars, serverVars, tokenVars, libVars, tunnel,
                 tunnelShutdownCalls, procEnv, exitCode, exc, interruptedAt, trace>>

\* lines 130-132: readline returned "" (the subprocess closed its output)
CliReadEOF ==
  /\ script = "online_preview" /\ pc = "cli_readline"
  /\ procState = "running"
  /\ \E d \in Delays :
       /\ elapsed + d <= MaxElapsed
       /\ elapsed' = elapsed + d
  /\ procState' = "exited"
  /\ pc' = "cli_end"
  /\ UNCHANGED <<inputVars, portVars, serverVars, tokenVars, libVars, tunnel,
                 tunnelShutdownCalls, errors, procEnv, terminateCalls, url, linesRead,
                 exitCode, exc, interruptedAt, trace>>

\* line 130: readline is still blocked, the subprocess is alive and silent
CliReadBlocked ==
  /\ script = "online_preview" /\ pc = "cli_readline"
  /\ procState = "running"
  /\ \E d \in Delays \ {0} :
       /\ elapsed + d <= MaxElapsed
       /\ elapsed' = elapsed + d
  /\ UNCHANGED <<inputVars, pc, portVars, serverVars, tokenVars, libVars, tunnel,
                 tunnelShutdownCalls, errors, procVars, url, linesRead, exitCode, exc,
                 interruptedAt, trace>>

\* lines 146-157: after the loop
CliEnd ==
  /\ script = "online_preview" /\ pc = "cli_end"
  /\ IF url = NoUrl
       THEN /\ terminateCalls' = terminateCalls + 1
            /\ procState' = IF procState = "running" THEN "terminated" ELSE procState
            /\ errors' = Append(errors, ReasonNoUrl)
            /\ UNCHANGED tunnel
       ELSE /\ tunnel' = [kind |-> "cli", url |-> url]
            /\ UNCHANGED <<procState, terminateCalls, errors>>
  /\ pc' = "check_tunnel"
  /\ UNCHANGED <<inputVars, portVars, serverVars, tokenVars, libVars,
                 tunnelShutdownCalls, procEnv, loopVars, exitCode, exc, interruptedAt,
                 trace>>

\* lines 242-254 / 266-270: degraded mode or public preview
CheckTunnel ==
  /\ script = "online_preview" /\ pc = "check_tunnel"
  /\ IF tunnel = NoTunnel
       THEN pc' = "wait_local" /\ trace' = Append(trace, "degraded")
       ELSE pc' = "wait_public" /\ UNCHANGED trace
  /\ UNCHANGED <<inputVars, portVars, serverVars, tokenVars, libVars, tunnel,
                 tunnelShutdownCalls, errors, procVars, loopVars, exitCode, exc,
                 interruptedAt>>

\* lines 256-264: KeyboardInterrupt in the degraded wait loop
InterruptWaitLocal ==
  /\ script = "online_preview" /\ pc = "wait_local"
  /\ interruptedAt' = pc
  /\ server' = "closed"
  /\ shutdownCalls' = shutdownCalls + 1
  /\ closeCalls' = closeCalls + 1
  /\ exitCode' = DegradedExit
  /\ pc' = "done"
  /\ UNCHANGED <<inputVars, portVars, tokenVars, libVars, tunnel, tunnelShutdownCalls,
                 errors, procVars, loopVars, exc, trace>>

\* lines 272-287: KeyboardInterrupt in the public wait loop; tunnel.shutdown()
\* is disconnect (may raise) or terminate/wait/kill
InterruptWaitPublic ==
  /\ script = "online_preview" /\ pc = "wait_public"
  /\ interruptedAt' = pc
  /\ tunnelShutdownCalls' = tunnelShutdownCalls + 1
  /\ server' = "closed"
  /\ shutdownCalls' = shutdownCalls + 1
  /\ closeCalls' = closeCalls + 1
  /\ IF tunnel.kind = "pyngrok"
       THEN /\ UNCHANGED <<procState, terminateCalls>>
            /\ \E ok \in BOOLEAN :
                 IF ok THEN pc' = "done" /\ exitCode' = PublicExit /\ UNCHANGED exc
                       ELSE /\ pc' = "crashed"
                            /\ exc' = [type |-> "Exception", at |-> "wait_public"]
                            /\ UNCHANGED exitCode
       ELSE /\ terminateCalls' = terminateCalls + 1
            /\ \E inTime \in BOOLEAN :
                 procState' = IF procState # "running" THEN procState
                              ELSE IF inTime THEN "terminated" ELSE "killed"
            /\ pc' = "done" /\ exitCode' = PublicExit /\ UNCHANGED exc
  /\ UNCHANGED <<inputVars, portVars, tokenVars, libVars, tunnel, errors, procEnv,
                 loopVars, trace>>

EarlyPcs ==
  {"start", "find_port", "start_server", "resolve_token", "ensure_pyngrok",
   "open_pyngrok", "cli_start", "cli_loop", "cli_readline", "cli_end", "check_tunnel"}

\* KeyboardInterrupt anywhere else: it is not an Exception, so neither the
\* handler of line 282 nor any other handler of main runs
InterruptEarly ==
  /\ pc \in EarlyPcs
  /\ interruptedAt' = pc
  /\ exc' = [type |-> "KeyboardInterrupt", at |-> pc]
  /\ pc' = "crashed"
  /\ UNCHANGED <<inputVars, portVars, serverVars, tokenVars, libVars, tunnel,
                 tunnelShutdownCalls, errors, procVars, loopVars, exitCode, trace>>

\* ------------------------------------------------------------ preview_neredenaldim.main
\* lines 41-42: raise SystemExit(message)
PnCheckHtml ==
  /\ script = "preview_neredenaldim" /\ pc = "start"
  /\ IF ~htmlExists
       THEN pc' = "done" /\ exitCode' = 1
       ELSE pc' = "find_port" /\ UNCHANGED exitCode
  /\ UNCHANGED <<inputVars, portVars, serverVars, tokenVars, libVars, tunnel,
                 tunnelShutdownCalls, errors, procVars, loopVars, exc,
                 interruptedAt, trace>>

\* line 45: port = find_free_port(8000)
PnFindFreePort ==
  /\ script = "preview_neredenaldim" /\ pc = "find_port"
  /\ \E L \in ListenerSets :
       \E r \in find_free_port(DefaultPort, L) :
         /\ argPort' = DefaultPort
         /\ listeners' = L
         /\ IF r.raised
              THEN /\ portOutcome' = "raised"
                   /\ pc' = "crashed"
                   /\ exc' = [type |-> "OSError", at |-> "find_port"]
                   /\ UNCHANGED port
              ELSE /\ portOutcome' = "returned"
                   /\ port' = r.port
                   /\ pc' = "start_server"
                   /\ UNCHANGED exc
  /\ UNCHANGED <<inputVars, serverVars, tokenVars, libVars, tunnel,
                 tunnelShutdownCalls, errors, procVars, loopVars, exitCode,
                 interruptedAt, trace>>

\* lines 47-56: server, thread, webbrowser.open
PnStartServer ==
  /\ script = "preview_neredenaldim" /\ pc = "start_server"
  /\ server' = "serving"
  /\ trace' = Append(trace, "server")
  /\ pc' = "pn_wait"
  /\ UNCHANGED <<inputVars, portVars, shutdownCalls, closeCalls, tokenVars, libVars,
                 tunnel, tunnelShutdownCalls, errors, procVars, loopVars, exitCode,
                 exc, interruptedAt>>

\* lines 58-65: KeyboardInterrupt in the wait loop
PnInterruptWait ==
  /\ script = "preview_neredenaldim" /\ pc = "pn_wait"
  /\ interruptedAt' = pc
  /\ server' = "closed"
  /\ shutdownCalls' = shutdownCalls + 1
  /\ closeCalls' = closeCalls + 1
  /\ exitCode' = 0
  /\ pc' = "done"
  /\ UNCHANGED <<inputVars, portVars, tokenVars, libVars, tunnel, tunnelShutdownCalls,
                 errors, procVars, loopVars, exc, trace>>

Next ==
  \/ CheckHtml
  \/ FindAvailablePort
  \/ StartServer
  \/ ResolveAuthToken
  \/ EnsurePyngrok
  \/ OpenPyngrokTunnel
  \/ CliStart
  \/ CliLoopTest
  \/ CliReadLine
  \/ CliReadEOF
  \/ CliReadBlocked
  \/ CliEnd
  \/ CheckTunnel
  \/ InterruptWaitLocal
  \/ InterruptWaitPublic
  \/ InterruptEarly
  \/ PnCheckHtml
  \/ PnFindFreePort
  \/ PnStartServer
  \/ PnInterruptWait

Spec == Init /\ [][Next]_vars

\* ------------------------------------------------------------ properties
Online == script = "online_preview"
In(x, seq) == \E i \in 1..Len(seq) : seq[i] = x
Min(S) == CHOOSE x \in S : \A y \in S : x <= y
LineUrl(line) == IF UrlSearch(line) = 0 THEN NoUrl ELSE Group1(line)
HttpsIdx == {i \in 1..Len(linesRead) : LineUrl(linesRead[i]).scheme = "https"}
HttpIdx == {i \in 1..Len(linesRead) : LineUrl(linesRead[i]).scheme = "http"}
NoErrRead == \A i \in 1..Len(linesRead) : ~HasErrMarker(linesRead[i])
HttpThenHttps == \E i \in HttpIdx, j \in HttpsIdx : i < j
BackendPcs ==
  {"ensure_pyngrok", "open_pyngrok", "cli_start", "cli_loop", "cli_readline", "cli_end"}
AllowedTraces ==
  {<<>>, <<"server">>, <<"server", "library">>, <<"server", "cli">>,
   <<"server", "library", "cli">>, <<"server", "cli", "degraded">>,
   <<"server", "library", "cli", "degraded">>}

\* C1: backends are attempted in the order library, CLI subprocess, degraded
\* mode; the CLI subprocess is launched only when the library backend produced
\* no tunnel, degraded mode is entered only when both produced none, and the
\* server is started before any backend is attempted.
C1_BackendOrder ==
  Online =>
    /\ trace \in AllowedTraces
    /\ (In("cli", trace) \/ procState # "none" => tunnel.kind # "pyngrok")
    /\ (In("degraded", trace) =>
          /\ tunnel = NoTunnel
          /\ In("cli", trace)
          /\ (modules = "loaded" => In("library", trace)))
    /\ (modules # "unset" \/ connectLog # <<>> \/ procState # "none" =>
          server # "none" /\ trace # <<>> /\ trace[1] = "server")

\* C1 witness: both backends were tried in order and failed, degraded mode entered
C1_Witness ==
  /\ Online /\ pc = "wait_local"
  /\ trace = <<"server", "library", "cli", "degraded">>
  /\ procState # "none"

\* C2: after an interrupt received once the server has been started, the tunnel
\* resource (established tunnel or launched subprocess) is released and
\* server.shutdown and server.server_close have each been called exactly once.
C2_InterruptReleasesAll ==
  Online /\ interruptedAt # "" /\ In("server", trace) =>
    /\ shutdownCalls = 1 /\ closeCalls = 1 /\ server = "closed"
    /\ (tunnel # NoTunnel => tunnelShutdownCalls = 1)
    /\ procState # "running"

\* C3: when the subprocess emits nothing, the call is not still waiting once the
\* 30-second window is over, and it ends with the "did not report a public
\* URL" reason and a terminated subprocess.
C3_SilentProcessTimesOut ==
  Online /\ procState # "none" /\ linesRead = <<>> =>
    /\ (pc = "cli_readline" => elapsed <= CliWindow)
    /\ (pc \in {"check_tunnel", "wait_local", "wait_public", "done"} =>
          /\ errors # <<>> /\ errors[Len(errors)] = ReasonNoUrl
          /\ procState # "running" /\ terminateCalls >= 1)

\* C4: every line read that contains "err=" makes the call fail at once with
\* that line's stripped text as the reason, the subprocess terminated first.
C4_ErrLineFailsImmediately ==
  Online =>
    \A i \in 1..Len(linesRead) :
      HasErrMarker(linesRead[i]) =>
        /\ i = Len(linesRead)
        /\ pc \notin {"cli_loop", "cli_readline", "cli_end"}
        /\ errors # <<>> /\ errors[Len(errors)] = Strip(linesRead[i])
        /\ tunnel.kind # "cli"
        /\ procState = "terminated" /\ terminateCalls >= 1

\* C5: with no "err=" line read, the call returns the first https URL when one
\* was read (in particular after an http line), and returns an http URL only
\* when the output ended or the window closed with no https line read.
C5_PrefersHttps ==
  Online /\ NoErrRead =>
    /\ (tunnel.kind = "cli" /\ HttpsIdx # {} =>
          tunnel.url = LineUrl(linesRead[Min(HttpsIdx)]))
    /\ (tunnel.kind = "cli" /\ tunnel.url.scheme # "https" =>
          /\ HttpsIdx = {} /\ HttpIdx # {}
          /\ tunnel.url = LineUrl(linesRead[Min(HttpIdx)])
          /\ (procState = "exited" \/ ~InWindow(elapsed)))
    /\ (HttpThenHttps /\ pc \in {"check_tunnel", "wait_local", "wait_public", "done"} =>
          tunnel.kind = "cli" /\ tunnel.url.scheme = "https")

\* C5 witness: an http line then an https line were read and the https URL returned
C5_Witness ==
  /\ Online /\ linesRead = <<LHttp, LHttps>>
  /\ tunnel = [kind |-> "cli", url |-> [scheme |-> "https", host |-> "secure.example"]]

\* C6: exit code 0 only after a tunnel was established and the run interrupted;
\* 1 for a missing target file; 1 in degraded mode, where the server stays up
\* until the interrupt.
C6_ExitCodes ==
  Online =>
    /\ (exitCode = 0 =>
          tunnel # NoTunnel /\ interruptedAt = "wait_public" /\ pc = "done")
    /\ (~htmlExists /\ pc = "done" => exitCode = 1)
    /\ (In("degraded", trace) =>
          /\ pc \in {"wait_local", "done"}
          /\ (pc = "done" => exitCode = 1 /\ interruptedAt = "wait_local")
          /\ (interruptedAt = "" =>
                server = "serving" /\ shutdownCalls = 0 /\ closeCalls = 0))

\* C6 witness: a degraded run ended by the interrupt with exit code 1
C6_Witness ==
  Online /\ In("degraded", trace) /\ pc = "done" /\ exitCode = 1 /\ server = "closed"

\* C7: with the target file missing main returns 1 and nothing was acquired:
\* no port probed, no server, no token resolved, no backend attempted.
C7_MissingFileAcquiresNothing ==
  Online /\ ~htmlExists =>
    /\ pc \in {"start", "done", "crashed"}
    /\ (pc = "done" => exitCode = 1)
    /\ portOutcome = "none" /\ port = 0 /\ listeners = {}
    /\ server = "none" /\ trace = <<>>
    /\ resolveCalls = 0 /\ auth_token = None
    /\ modules = "unset" /\ connectLog = <<>> /\ procState = "none"

\* C7 witness: main returned 1 for a missing file
C7_Witness == Online /\ ~htmlExists /\ pc = "done" /\ exitCode = 1

\* C8: both port selectors return the preferred port when nothing listens on
\* it, and otherwise an OS-assigned port different from the preferred port and
\* from every listening port.
C8_PortSelector ==
  portOutcome # "none" =>
    /\ portOutcome = "returned"
    /\ IF argPort \notin listeners THEN port = argPort
       ELSE port \notin (listeners \cup {argPort}) /\ port \in EphemeralPorts

\* C9: no backend-level failure leaves main as an exception or stops the
\* server, and in degraded mode the reason list holds one reason per failed
\* backend in attempt order.
C9_NoBackendCrash ==
  Online =>
    /\ (exc.type \notin {"none", "KeyboardInterrupt"} /\ exc.at \in BackendPcs => FALSE)
    /\ (In("degraded", trace) =>
          /\ Len(errors) = (IF In("library", trace) THEN 2 ELSE 1)
          /\ (In("library", trace) => errors[1] = ReasonPyngrok))

\* C10: the token is resolved once with the precedence command line, then
\* environment, then prompt on a terminal, then none; the library connects with
\* that token configured and the subprocess's NGROK_AUTHTOKEN carries it.
C10_BackendsUseResolvedToken ==
  Online /\ resolveCalls > 0 =>
    /\ resolveCalls = 1
    /\ auth_token =
         (IF ~cliToken.isNone /\ cliToken.text # <<>> THEN cliToken
          ELSE IF ~environ.isNone /\ environ.text # <<>> THEN environ
          ELSE IF stdin.tty /\ stdin.typed = <<SP, Txt("tokC"), NL>> THEN Some(TokC)
          ELSE None)
    /\ (Truthy(auth_token) =>
          /\ \A i \in 1..Len(connectLog) : connectLog[i] = auth_token
          /\ (procState # "none" => procEnv = auth_token))

====
